---- MODULE Spec2Model ----
(***************************************************************************)
(* Periodic index fund investment system (src/code.py): the portfolio      *)
(* state, generate_orders, and IndexInvestor.rebalance with its optimistic *)
(* settlement.                                                             *)
(*                                                                         *)
(* Money is modelled by exact integers and a target weight by an exact     *)
(* fraction num/den, so that total_value * target_weight is compared and   *)
(* divided exactly (every value difference is carried multiplied by the    *)
(* weight's denominator).  Python dicts are functions whose DOMAIN is the  *)
(* key set; a dict iterated in insertion order is a sequence of entries.   *)
(***************************************************************************)
EXTENDS Integers, Sequences, FiniteSets, TLC

\* ------------------------------------------------------------------ bounds
\* Deposits and price moves are explored while the portfolio is worth at most this.
MaxTotalValue == 100

\* generate_orders(portfolio, target_weights, min_order_value=10)
DefaultMinOrderValue == 10

\* ------------------------------------------------------------- input sets
W(n, d) == [num |-> n, den |-> d]
TW(s, n, d) == [symbol |-> s, weight |-> W(n, d)]

\* What the Composition Provider may return as 'weights' (insertion order kept).
ProviderWeights ==
    { <<TW("A", 1, 2), TW("B", 1, 2)>>,
      <<TW("B", 1, 2), TW("A", 1, 2)>>,
      <<TW("A", 0, 1), TW("B", 1, 1)>>,
      <<TW("A", 1, 1)>>,
      << >> }

\* Prices the Price Feed may return.
PriceSet == {5, 20}
InitialCash == {0, 100}
DepositAmounts == {50}
\* Symbol lists a direct update_prices call is given.
RefreshInputs == { << >>, <<"A", "B">> }

Abs(x) == IF x < 0 THEN -x ELSE x

SeqToSet(s) == { s[i] : i \in DOMAIN s }

PartialFns(S, V) == UNION { [D -> V] : D \in SUBSET S }

\* ---------------------------------------------------------- state
VARIABLES
    cash,               \* IndexPortfolio.cash
    holdings,           \* IndexPortfolio.holdings : symbol -> quantity
    prices,             \* IndexPortfolio.prices   : symbol -> price
    latest_composition, \* IndexInvestor.latest_composition (set = FALSE: None)
    pc,                 \* where the single control flow is
    orders,             \* rebalance: the list returned by generate_orders
    idx,                \* rebalance: position of the for loop in orders
    successful_orders,  \* rebalance: successful_orders
    gen,                \* the last generate_orders call: arguments, pre-state, result
    submitted,          \* orders handed to BrokerInterface.place_order in this pass
    responses,          \* the broker's answers, parallel to submitted
    prevPass,           \* the pass that just ended, while nothing has happened since
    lastFetch,          \* what the last step's Composition Provider query did
    refresh,            \* the update_prices call examined on its own (RefreshSpec)
    loop,               \* where run_weekly is: not_started, run_pending, job, sleep
    inflight            \* the calls of rebalance that have not returned yet

vars == <<cash, holdings, prices, latest_composition, pc, orders, idx,
          successful_orders, gen, submitted, responses, prevPass, lastFetch,
          refresh, loop, inflight>>

\* ------------------------------------------------- IndexPortfolio queries

Get(d, k, default) == IF k \in DOMAIN d THEN d[k] ELSE default

RECURSIVE SumOver(_, _, _)
SumOver(S, h, p) ==
    IF S = {} THEN 0
    ELSE LET s == CHOOSE x \in S : TRUE
         IN Get(h, s, 0) * Get(p, s, 0) + SumOver(S \ {s}, h, p)

\* IndexPortfolio.get_total_value
get_total_value(c, h, p) == SumOver(DOMAIN h, h, p) + c

\* list(d.keys()): the keys in some order
RECURSIVE KeysList(_)
KeysList(S) ==
    IF S = {} THEN << >>
    ELSE LET s == CHOOSE x \in S : TRUE IN <<s>> \o KeysList(S \ {s})

\* 'symbols = symbols or list(self.holdings.keys())'
RefreshList(symbols, h) == IF symbols = << >> THEN KeysList(DOMAIN h) ELSE symbols

\* The body of the for loop of update_prices (lines 85-89).  feed holds the Price
\* Feed's answers: its DOMAIN is the symbols whose query succeeds.  A successful
\* query overwrites prices[symbol]; a failed one (the bare except) leaves the
\* entry as it was, present or absent.
RefreshOne(p, symbol, feed) ==
    IF symbol \in DOMAIN feed
    THEN [ s \in DOMAIN p \cup {symbol} |-> IF s = symbol THEN feed[symbol] ELSE p[s] ]
    ELSE p

\* update_prices with one try around the whole loop: the first failure ends it.
RECURSIVE UpdatePricesStopAtFailure(_, _, _)
UpdatePricesStopAtFailure(p, symbols, feed) ==
    IF symbols = << >> \/ Head(symbols) \notin DOMAIN feed THEN p
    ELSE UpdatePricesStopAtFailure(RefreshOne(p, Head(symbols), feed), Tail(symbols), feed)

\* The for loop of update_prices over the list symbols (lines 84-89).
RECURSIVE UpdatePricesLoop(_, _, _)
UpdatePricesLoop(p, symbols, feed) ==
    IF symbols = << >> THEN p
    ELSE UpdatePricesLoop(RefreshOne(p, Head(symbols), feed), Tail(symbols), feed)

update_prices(p, symbols, feed) == UpdatePricesLoop(p, symbols, feed)

\* ------------------------------------------------------- generate_orders

\* int(x / y) for y > 0: truncation toward zero
IntTrunc(x, y) == IF x >= 0 THEN x \div y ELSE -((-x) \div y)

\* current_value (lines 138-141)
CurrentValue(h, p, symbol) ==
    IF symbol \in DOMAIN h /\ symbol \in DOMAIN p THEN h[symbol] * p[symbol] ELSE 0

\* value_difference = total_value * target_weight - current_value, times w.den
ValueDifference(total, w, h, p, symbol) ==
    total * w.num - CurrentValue(h, p, symbol) * w.den

\* 'if abs(value_difference) < min_order_value: continue'
NoDeadZone(diff, den, mov) == FALSE
DeadZoneDefault(diff, den, mov) == Abs(diff) < DefaultMinOrderValue * den
DeadZone(diff, den, mov) == Abs(diff) < mov * den

\* 'quantity = int(value_difference / price)'
QuantityAwayFromZero(diff, den, price) ==
    IF diff >= 0 THEN (diff + den * price - 1) \div (den * price)
    ELSE -((-diff + den * price - 1) \div (den * price))
Quantity(diff, den, price) == IntTrunc(diff, den * price)

\* 'if order_value <= available_cash'
AlwaysAffordable(order_value, available_cash) == TRUE
CanAffordStrict(order_value, available_cash) == order_value < available_cash
CanAfford(order_value, available_cash) == order_value <= available_cash

\* 'available_cash -= order_value'
KeepAvailable(available_cash, order_value) == available_cash
NextAvailable(available_cash, order_value) == available_cash - order_value

Order(s, q, a) == [symbol |-> s, quantity |-> q, action |-> a]

BuyOrder(symbol, quantity) == Order(symbol, quantity, "BUY")

\* 'orders.append((symbol, abs(quantity), "SELL"))'
SellOrderSigned(symbol, quantity) == Order(symbol, quantity, "SELL")
SellOrderOneMore(symbol, quantity) == Order(symbol, Abs(quantity) + 1, "SELL")
SellOrder(symbol, quantity) == Order(symbol, Abs(quantity), "SELL")

\* 'orders.append(...)' (lines 157 and 161)
EmitFront(acc, order) == <<order>> \o acc
Emit(acc, order) == Append(acc, order)

\* The for loop of generate_orders (lines 136-161) from entry i on.
RECURSIVE GenLoop(_, _, _, _, _, _, _, _)
GenLoop(tw, i, total, h, p, mov, available_cash, acc) ==
    IF i > Len(tw) THEN [orders |-> acc, available_cash |-> available_cash]
    ELSE
      LET symbol == tw[i].symbol
          w      == tw[i].weight
          diff   == ValueDifference(total, w, h, p, symbol)
          skip   == GenLoop(tw, i + 1, total, h, p, mov, available_cash, acc)
      IN IF DeadZone(diff, w.den, mov) THEN skip
         ELSE IF symbol \in DOMAIN p /\ p[symbol] > 0
         THEN LET price    == p[symbol]
                  quantity == Quantity(diff, w.den, price)
              IN IF quantity > 0 /\ diff > 0
                 THEN LET order_value == quantity * price
                      IN IF CanAfford(order_value, available_cash)
                         THEN GenLoop(tw, i + 1, total, h, p, mov,
                                      NextAvailable(available_cash, order_value),
                                      Emit(acc, BuyOrder(symbol, quantity)))
                         ELSE skip
                 ELSE IF quantity < 0 /\ diff < 0
                 THEN GenLoop(tw, i + 1, total, h, p, mov, available_cash,
                              Emit(acc, SellOrder(symbol, quantity)))
                 ELSE skip
         ELSE skip

\* generate_orders after its price refresh: total_value once, then the loop.
\* (orders: the list returned; available_cash: the tracker's last value)
GenerateRun(c, h, p, tw, mov) ==
    GenLoop(tw, 1, get_total_value(c, h, p), h, p, mov, c, << >>)
generate_orders(c, h, p, tw, mov) == GenerateRun(c, h, p, tw, mov).orders

\* 'available_cash = portfolio.cash' (line 133) copies a number: the decrements
\* of line 158 stay in the local, and portfolio.cash after the call is what it
\* was before it.
CashAliasedToTracker(c, available_cash) == available_cash
CashAfterGenerate(c, available_cash) == c

TargetSymbols(tw) == << >> \o [ i \in DOMAIN tw |-> tw[i].symbol ]

\* What the pass before is remembered by (valid: it ended and nothing happened since).
NoPrevPass == [valid |-> FALSE, target_weights |-> << >>, prices |-> << >>,
               accepted |-> FALSE, funded |-> FALSE, settled |-> 0]

\* What a generate_orders call is remembered by.
GenRecord(c, h, p, tw, mov, res, prev) ==
    [ called |-> TRUE, target_weights |-> tw, min_order_value |-> mov,
      cash |-> c, holdings |-> h, prices |-> p,
      total_value |-> get_total_value(c, h, p), orders |-> res, prev |-> prev ]

NoGen(tw, mov) ==
    [ called |-> FALSE, target_weights |-> tw, min_order_value |-> mov,
      cash |-> 0, holdings |-> << >>, prices |-> << >>,
      total_value |-> 0, orders |-> << >>, prev |-> NoPrevPass ]

\* What a direct update_prices call is remembered by: the list it went through,
\* the Price Feed's answers and the prices before it.
NoRefresh == [called |-> FALSE, symbols |-> << >>, feed |-> << >>, before |-> << >>]
RefreshRecord(symbols, feed, before) ==
    [called |-> TRUE, symbols |-> symbols, feed |-> feed, before |-> before]

\* ------------------------------------------------------ Composition Provider

NoComposition == [set |-> FALSE, weights |-> << >>]
Composition(tw) == [set |-> TRUE, weights |-> tw]

\* What get_index_composition may do: raise, or return a composition.
FetchOutcomes ==
    {[ok |-> FALSE, weights |-> << >>]} \cup {[ok |-> TRUE, weights |-> tw] : tw \in ProviderWeights}

\* update_index_composition: on success the composition is cached, on an
\* exception it is left as it was and False is returned.
update_index_composition(latest, fetch) ==
    IF fetch.ok THEN Composition(fetch.weights) ELSE latest

\* 'if not self.latest_composition:' (line 245)
AlwaysFetch(latest) == TRUE
NeedsFetch(latest) == ~latest.set

\* 'if not self.latest_composition: if not self.update_index_composition(): return'
NeverReturnsEarly(queried, fetched) == FALSE
ReturnsEarly(queried, fetched) == queried /\ ~fetched

\* ------------------------------------------------------------- settlement

\* 'if quantity > 0' (line 256)
RebalanceGuard(order) == order.quantity > 0

\* Lines 262-267: the optimistic update of holdings and cash.
SettleBuyHoldingsOnly(order, c, h, p) ==
    LET s == order.symbol
        q == order.quantity
    IN IF order.action = "BUY"
       THEN [cash |-> c,
             holdings |-> [x \in DOMAIN h \cup {s} |-> IF x = s THEN Get(h, s, 0) + q ELSE h[x]]]
       ELSE [cash |-> c + q * p[s],
             holdings |-> [x \in DOMAIN h \cup {s} |-> IF x = s THEN Get(h, s, 0) - q ELSE h[x]]]
SettleTradedSymbolOnly(order, c, h, p) ==
    LET s == order.symbol
        q == order.quantity
        sign == IF order.action = "BUY" THEN 1 ELSE -1
    IN [cash |-> c - sign * q * p[s],
        holdings |-> [x \in {s} |-> Get(h, s, 0) + sign * q]]
Settle(order, c, h, p) ==
    LET s == order.symbol
        q == order.quantity
    IN IF order.action = "BUY"
       THEN [cash |-> c - q * p[s],
             holdings |-> [x \in DOMAIN h \cup {s} |-> IF x = s THEN Get(h, s, 0) + q ELSE h[x]]]
       ELSE [cash |-> c + q * p[s],
             holdings |-> [x \in DOMAIN h \cup {s} |-> IF x = s THEN Get(h, s, 0) - q ELSE h[x]]]

\* Lines 257-267: what one place_order answer does to the pass.
AfterPlaceOrderAlwaysSettles(success, order, c, h, p, done) ==
    LET st == Settle(order, c, h, p)
    IN [cash |-> st.cash, holdings |-> st.holdings,
        successful_orders |-> IF success THEN Append(done, order) ELSE done]
AfterPlaceOrder(success, order, c, h, p, done) ==
    IF success
    THEN LET st == Settle(order, c, h, p)
         IN [cash |-> st.cash, holdings |-> st.holdings,
             successful_orders |-> Append(done, order)]
    ELSE [cash |-> c, holdings |-> h, successful_orders |-> done]

\* ------------------------------------------------------------------ history
\* The symbols for which the last generate_orders call sized a BUY (quantity > 0).
WarrantedBuys(g) ==
    { g.target_weights[i].symbol : i \in
        { j \in DOMAIN g.target_weights :
            LET e == g.target_weights[j]
                d == ValueDifference(g.total_value, e.weight, g.holdings, g.prices, e.symbol)
            IN /\ ~DeadZone(d, e.weight.den, g.min_order_value)
               /\ e.symbol \in DOMAIN g.prices
               /\ g.prices[e.symbol] > 0
               /\ Quantity(d, e.weight.den, g.prices[e.symbol]) > 0 } }

OrderedSymbols(os, side) == { os[k].symbol : k \in { j \in DOMAIN os : os[j].action = side } }

\* Line 269: once the loop is over rebalance only logs.  The portfolio's cash is
\* what the settlements of the pass left; it is not read back from the broker
\* (get_account_info, which answers cash 10000 in paper trading, is not called).
CashFromAccountInfo(c) == 10000
CashAtReturn(c) == c

\* ------------------------------------------------------------------- system

Init ==
    /\ cash \in InitialCash
    /\ holdings = << >>
    /\ prices = << >>
    /\ latest_composition = NoComposition
    /\ pc = "idle"
    /\ orders = << >>
    /\ idx = 1
    /\ successful_orders = << >>
    /\ gen = NoGen(<< >>, DefaultMinOrderValue)
    /\ submitted = << >>
    /\ responses = << >>
    /\ prevPass = NoPrevPass
    /\ lastFetch = "none"
    /\ refresh = NoRefresh
    /\ loop = "not_started"
    /\ inflight = 0

\* IndexInvestor.deposit_funds / IndexPortfolio.deposit
Deposit ==
    /\ pc = "idle"
    /\ \E amount \in DepositAmounts :
         /\ get_total_value(cash, holdings, prices) + amount <= MaxTotalValue
         /\ cash' = cash + amount
    /\ prevPass' = NoPrevPass
    /\ lastFetch' = "none"
    /\ UNCHANGED <<refresh, loop, inflight>>
    /\ UNCHANGED <<holdings, prices, latest_composition, pc, orders, idx,
                   successful_orders, gen, submitted, responses>>

\* A direct call of IndexInvestor.update_index_composition (as in __main__).
UpdateIndexComposition ==
    /\ pc = "idle"
    /\ \E fetch \in FetchOutcomes :
         /\ latest_composition' = update_index_composition(latest_composition, fetch)
         /\ lastFetch' = IF fetch.ok THEN "update_ok" ELSE "update_failed"
    /\ prevPass' = NoPrevPass
    /\ UNCHANGED <<refresh, loop, inflight>>
    /\ UNCHANGED <<cash, holdings, prices, pc, orders, idx, successful_orders,
                   gen, submitted, responses>>

\* IndexInvestor.rebalance up to the for loop: the composition fetch if none is
\* cached, then generate_orders (price refresh of the target symbols included).
RebalanceCall ==
    /\ pc = "idle"
    /\ prevPass' = NoPrevPass
    /\ UNCHANGED <<holdings, refresh>>
    /\ \E fetch \in FetchOutcomes :
         LET queried == NeedsFetch(latest_composition)
             comp == IF queried
                     THEN update_index_composition(latest_composition, fetch)
                     ELSE latest_composition
         IN \* with a cached composition the provider is not called: fetch is unused
            /\ (~queried => fetch = [ok |-> FALSE, weights |-> << >>])
            /\ latest_composition' = comp
            /\ lastFetch' = IF ~queried THEN "none"
                             ELSE IF fetch.ok THEN "rebalance_ok" ELSE "rebalance_failed"
            /\ IF ReturnsEarly(queried, fetch.ok)
               THEN UNCHANGED <<cash, prices, pc, orders, idx, successful_orders,
                                   gen, submitted, responses>>
               ELSE IF ~comp.set
               THEN \* line 251 subscripts None: TypeError leaves rebalance
                    /\ pc' = "raised"
                    /\ UNCHANGED <<cash, prices, orders, idx, successful_orders,
                                   gen, submitted, responses>>
               ELSE \E feed \in PartialFns(SeqToSet(RefreshList(TargetSymbols(comp.weights),
                                                               holdings)), PriceSet) :
                      LET p == update_prices(prices,
                                   RefreshList(TargetSymbols(comp.weights), holdings), feed)
                          run == GenerateRun(cash, holdings, p, comp.weights,
                                             DefaultMinOrderValue)
                          res == generate_orders(cash, holdings, p, comp.weights,
                                                 DefaultMinOrderValue)
                      IN /\ get_total_value(cash, holdings, p) <= MaxTotalValue
                         /\ prices' = p
                         /\ cash' = CashAfterGenerate(cash, run.available_cash)
                         /\ orders' = res
                         /\ gen' = GenRecord(cash, holdings, p, comp.weights,
                                          DefaultMinOrderValue, res, prevPass)
                         /\ idx' = 1
                         /\ successful_orders' = << >>
                         /\ submitted' = << >>
                         /\ responses' = << >>
                         /\ pc' = "executing"
    /\ inflight' = IF pc' = "executing" THEN inflight + 1 ELSE inflight

\* rebalance called directly (as in __main__)
Rebalance == RebalanceCall /\ UNCHANGED loop

\* One iteration of the for loop of rebalance (lines 255-267).
SubmitOrder ==
    /\ pc = "executing"
    /\ idx <= Len(orders)
    /\ idx' = idx + 1
    /\ LET order == orders[idx]
       IN IF RebalanceGuard(order)
          THEN \E success \in BOOLEAN :
                 LET r == AfterPlaceOrder(success, order, cash, holdings, prices,
                                          successful_orders)
                 IN /\ cash' = r.cash
                    /\ holdings' = r.holdings
                    /\ successful_orders' = r.successful_orders
                    /\ submitted' = Append(submitted, order)
                    /\ responses' = Append(responses, success)
          ELSE UNCHANGED <<cash, holdings, successful_orders, submitted, responses>>
    /\ UNCHANGED <<prices, latest_composition, pc, orders, gen, prevPass,
                   lastFetch, refresh, loop, inflight>>

\* The for loop is over: the log line, and rebalance returns.
RebalanceEnd ==
    /\ pc = "executing"
    /\ idx > Len(orders)
    /\ pc' = "idle"
    /\ prevPass' = [valid |-> TRUE,
                    target_weights |-> gen.target_weights,
                    prices |-> prices,
                    accepted |-> \A k \in DOMAIN responses : responses[k],
                    funded |-> WarrantedBuys(gen) \subseteq OrderedSymbols(orders, "BUY"),
                    settled |-> Len(successful_orders)]
    /\ orders' = << >>
    /\ idx' = 1
    /\ successful_orders' = << >>
    /\ submitted' = << >>
    /\ responses' = << >>
    /\ gen' = NoGen(<< >>, DefaultMinOrderValue)
    /\ lastFetch' = "none"
    /\ cash' = CashAtReturn(cash)
    /\ inflight' = inflight - 1
    /\ loop' = IF loop = "job" THEN "sleep" ELSE loop
    /\ UNCHANGED <<holdings, prices, latest_composition, refresh>>

\* A direct call of IndexPortfolio.update_prices (symbols = << >>: the default).
UpdatePrices ==
    /\ pc = "idle"
    /\ \E symbols \in RefreshInputs :
         \E feed \in PartialFns(SeqToSet(RefreshList(symbols, holdings)), PriceSet) :
           LET p == update_prices(prices, RefreshList(symbols, holdings), feed)
           IN /\ get_total_value(cash, holdings, p) <= MaxTotalValue
              /\ prices' = p
              /\ UNCHANGED <<refresh, loop, inflight>>
    /\ prevPass' = NoPrevPass
    /\ lastFetch' = "none"
    /\ UNCHANGED <<cash, holdings, latest_composition, pc, orders, idx,
                   successful_orders, gen, submitted, responses>>

Next ==
    \/ Deposit
    \/ UpdateIndexComposition
    \/ UpdatePrices
    \/ Rebalance
    \/ SubmitOrder
    \/ RebalanceEnd

Spec == Init /\ [][Next]_vars

\* ---------------------------------------------------------------- run_weekly
\* run_weekly registers rebalance as the weekly job and then polls for ever:
\* 'while True: schedule.run_pending(); time.sleep(60)'.  run_pending calls a due
\* job in the polling thread, so it returns, and the loop reaches time.sleep,
\* only when rebalance has returned.

\* Where the loop is once run_pending has called rebalance: inside the job while
\* the pass runs, at time.sleep when rebalance returned at once.
JobInOwnThread(pass) == "sleep"
AfterJobStart(pass) == IF pass = "executing" THEN "job" ELSE "sleep"

\* Lines 276-300: the job is registered, the loop begins.
RunWeekly ==
    /\ pc = "idle"
    /\ loop = "not_started"
    /\ loop' = "run_pending"
    /\ UNCHANGED <<cash, holdings, prices, latest_composition, pc, orders, idx,
                   successful_orders, gen, submitted, responses, prevPass,
                   lastFetch, refresh, inflight>>

\* schedule.run_pending() when the job is not due.
RunPendingNotDue ==
    /\ loop = "run_pending"
    /\ loop' = "sleep"
    /\ UNCHANGED <<cash, holdings, prices, latest_composition, pc, orders, idx,
                   successful_orders, gen, submitted, responses, prevPass,
                   lastFetch, refresh, inflight>>

\* schedule.run_pending() when the job is due: rebalance is called.  (Were a
\* pass still running at that moment, this would be a second call of
\* rebalance that has not returned.)
RunPendingDue ==
    /\ loop = "run_pending"
    /\ IF pc = "idle"
       THEN RebalanceCall /\ loop' = AfterJobStart(pc')
       ELSE /\ inflight' = inflight + 1
            /\ loop' = "sleep"
            /\ UNCHANGED <<cash, holdings, prices, latest_composition, pc, orders,
                           idx, successful_orders, gen, submitted, responses,
                           prevPass, lastFetch, refresh>>

\* time.sleep(60), then the next turn of the loop.
Sleep ==
    /\ loop = "sleep"
    /\ loop' = "run_pending"
    /\ UNCHANGED <<cash, holdings, prices, latest_composition, pc, orders, idx,
                   successful_orders, gen, submitted, responses, prevPass,
                   lastFetch, refresh, inflight>>

TriggerNext ==
    \/ RunWeekly
    \/ RunPendingNotDue
    \/ RunPendingDue
    \/ SubmitOrder
    \/ RebalanceEnd
    \/ Sleep

TriggerSpec == Init /\ [][TriggerNext]_vars

\* --------------------------------------------- generate_orders on its own
\* generate_orders called directly, on any portfolio and any arguments drawn
\* from the input sets below.

GenUniverses == { <<"A", "B">>, <<"AAPL", "MSFT">> }
GenCash == {0, 60, 100, 10000}
GenQuantities == {0, 1, 3}
GenOldPrices == {20}
GenFeedPrices == {0, 5, 70, 100, 150}
GenMinOrderValues == {-5, 0, 10, 80}

GenTargets(u) ==
    { <<TW(u[1], 1, 2), TW(u[2], 1, 2)>>,
      <<TW(u[2], 1, 2), TW(u[1], 1, 2)>>,
      <<TW(u[1], 7, 10), TW(u[2], 7, 10)>>,
      <<TW(u[1], 0, 1), TW(u[2], 1, 1)>>,
      <<TW(u[1], 1, 10)>>,
      << >> }

GenInit ==
    /\ \E u \in GenUniverses :
         /\ holdings \in PartialFns(SeqToSet(u), GenQuantities)
         /\ prices \in PartialFns(SeqToSet(u), GenOldPrices)
         /\ \E tw \in GenTargets(u), mov \in GenMinOrderValues : gen = NoGen(tw, mov)
    /\ cash \in GenCash
    /\ latest_composition = NoComposition
    /\ pc = "idle"
    /\ orders = << >>
    /\ idx = 1
    /\ successful_orders = << >>
    /\ submitted = << >>
    /\ responses = << >>
    /\ prevPass = NoPrevPass
    /\ lastFetch = "none"
    /\ refresh = NoRefresh
    /\ loop = "not_started"
    /\ inflight = 0

\* orders = generate_orders(portfolio, target_weights, min_order_value)
GenerateOrdersCall ==
    /\ pc = "idle"
    /\ ~gen.called
    /\ LET tw == gen.target_weights
           S == RefreshList(TargetSymbols(tw), holdings)
       IN \E feed \in PartialFns(SeqToSet(S), GenFeedPrices) :
            LET p == update_prices(prices, S, feed)
                run == GenerateRun(cash, holdings, p, tw, gen.min_order_value)
                res == generate_orders(cash, holdings, p, tw, gen.min_order_value)
            IN /\ prices' = p
               /\ cash' = CashAfterGenerate(cash, run.available_cash)
               /\ gen' = GenRecord(cash, holdings, p, tw, gen.min_order_value, res,
                                   NoPrevPass)
    /\ lastFetch' = "none"
    /\ UNCHANGED <<holdings, latest_composition, pc, orders, idx,
                   successful_orders, submitted, responses, prevPass, refresh,
                   loop, inflight>>

GenNext == GenerateOrdersCall

GenSpec == GenInit /\ [][GenNext]_vars

\* -------------------------------------------- update_prices as a single call
\* One update_prices(symbols) call with a non-empty list on a freshly built
\* portfolio: the cached prices, the holdings and the cash are drawn from small
\* sets, the list names some of three symbols in some order, and the Price Feed
\* answers any part of the list.
RefreshSymbols == {"A", "B", "C"}
RefreshLists ==
    { <<"A">>, <<"A", "B">>, <<"B", "A">>, <<"C", "A", "B">>, <<"B", "C">> }
RefreshOldPrices == {20}
RefreshFeedPrices == {5, 70}
RefreshQuantities == {2}
RefreshCash == {0, 100}

RefreshInit ==
    /\ holdings \in PartialFns({"A", "B"}, RefreshQuantities)
    /\ prices \in PartialFns(RefreshSymbols, RefreshOldPrices)
    /\ cash \in RefreshCash
    /\ latest_composition = NoComposition
    /\ pc = "idle"
    /\ orders = << >>
    /\ idx = 1
    /\ successful_orders = << >>
    /\ gen = NoGen(<< >>, DefaultMinOrderValue)
    /\ submitted = << >>
    /\ responses = << >>
    /\ prevPass = NoPrevPass
    /\ lastFetch = "none"
    /\ refresh = NoRefresh
    /\ loop = "not_started"
    /\ inflight = 0

\* portfolio.update_prices(symbols)
UpdatePricesCall ==
    /\ pc = "idle"
    /\ ~refresh.called
    /\ \E symbols \in RefreshLists :
         LET S == RefreshList(symbols, holdings)
         IN \E feed \in PartialFns(SeqToSet(S), RefreshFeedPrices) :
              /\ prices' = update_prices(prices, S, feed)
              /\ refresh' = RefreshRecord(S, feed, prices)
    /\ UNCHANGED <<cash, holdings, latest_composition, pc, orders, idx,
                   successful_orders, gen, submitted, responses, prevPass,
                   lastFetch, loop, inflight>>

RefreshNext == UpdatePricesCall

RefreshSpec == RefreshInit /\ [][RefreshNext]_vars

\* ================================================================== claims

\* Arithmetic of one target entry of a generate_orders call g, written out from
\* the call's pre-state (holdings, refreshed prices, total value).
EntryCurrent(g, i) ==
    LET s == g.target_weights[i].symbol
    IN IF s \in DOMAIN g.holdings /\ s \in DOMAIN g.prices
       THEN g.holdings[s] * g.prices[s] ELSE 0
\* (target_value - current_value) * den
EntryDiff(g, i) ==
    LET w == g.target_weights[i].weight
    IN g.total_value * w.num - EntryCurrent(g, i) * w.den
EntryPriced(g, i) ==
    LET s == g.target_weights[i].symbol
    IN s \in DOMAIN g.prices /\ g.prices[s] > 0
\* the whole shares |diff| pays for
EntryShares(g, i) ==
    LET e == g.target_weights[i]
    IN Abs(EntryDiff(g, i)) \div (e.weight.den * g.prices[e.symbol])
EntryInDeadZone(g, i) ==
    Abs(EntryDiff(g, i)) < g.min_order_value * g.target_weights[i].weight.den
\* a BUY is warranted for entry i: outside the dead-zone, priced, quantity > 0
EntryBuyWarranted(g, i) ==
    /\ ~EntryInDeadZone(g, i)
    /\ EntryPriced(g, i)
    /\ EntryDiff(g, i) > 0
    /\ EntryShares(g, i) > 0
EntryCost(g, i) == EntryShares(g, i) * g.prices[g.target_weights[i].symbol]
HasOrder(os, s, side) == \E k \in DOMAIN os : os[k].symbol = s /\ os[k].action = side
HasAnyOrder(os, s) == \E k \in DOMAIN os : os[k].symbol = s

\* What the BUY orders of os for symbols of S cost at prices p.
RECURSIVE BuyCostOf(_, _, _)
BuyCostOf(os, p, S) ==
    IF os = << >> THEN 0
    ELSE (IF Head(os).action = "BUY" /\ Head(os).symbol \in S
          THEN Head(os).quantity * p[Head(os).symbol] ELSE 0)
         + BuyCostOf(Tail(os), p, S)
\* the cost of the BUYs call g emitted for the entries ahead of entry i
BuyCostBefore(g, i) ==
    BuyCostOf(g.orders, g.prices, { g.target_weights[j].symbol : j \in 1..(i - 1) })

\* The orders of os the broker answered TRUE to, in order.
RECURSIVE AcceptedOf(_, _)
AcceptedOf(os, rs) ==
    IF os = << >> THEN << >>
    ELSE IF Head(rs) THEN <<Head(os)>> \o AcceptedOf(Tail(os), Tail(rs))
         ELSE AcceptedOf(Tail(os), Tail(rs))

\* The step is a place_order call answered with b.
BrokerAnswered(b) ==
    /\ Len(responses') = Len(responses) + 1
    /\ responses'[Len(responses')] = b

\* C1: a successfully submitted order settles value-neutrally: a BUY of q at
\* price p takes q*p from cash and adds q to holdings[s], a SELL is the mirror,
\* and get_total_value at the same prices is the same before and after.
C1_SettlementConservesValue ==
    [][ BrokerAnswered(TRUE) =>
          LET o == orders[idx]
              s == o.symbol
              q == o.quantity
              sign == IF o.action = "BUY" THEN 1 ELSE -1
          IN /\ o.action \in {"BUY", "SELL"}
             /\ cash' = cash - sign * q * prices[s]
             /\ s \in DOMAIN holdings'
             /\ holdings'[s] = Get(holdings, s, 0) + sign * q
             /\ \A x \in DOMAIN holdings : x # s => holdings'[x] = holdings[x]
             /\ prices' = prices
             /\ get_total_value(cash', holdings', prices)
                  = get_total_value(cash, holdings, prices) ]_vars

\* C1 witness: a pass in which both a BUY and a SELL have been settled.
C1_Witness ==
    /\ pc = "executing"
    /\ HasAnyOrder(successful_orders, "A") /\ HasAnyOrder(successful_orders, "B")
    /\ \E k \in DOMAIN successful_orders : successful_orders[k].action = "BUY"
    /\ \E k \in DOMAIN successful_orders : successful_orders[k].action = "SELL"

\* The second of two rebalance calls in immediate succession, with the same
\* target weights and the same prices after the refresh.
SecondOfTwoPasses ==
    /\ gen.called
    /\ gen.prev.valid
    /\ gen.prev.target_weights = gen.target_weights
    /\ gen.prev.prices = gen.prices

\* C2 as stated: the second of two immediately successive rebalance calls with
\* the same target weights and prices generates no order.
C2_Original == SecondOfTwoPasses => orders = << >>

\* C2 amended: the second of two immediately successive rebalance calls with the
\* same target weights and prices generates no order, provided the broker
\* accepted every order of the first call and the first call dropped no
\* warranted BUY for lack of cash.
C2_IdempotentAfterCleanPass ==
    (SecondOfTwoPasses /\ gen.prev.accepted /\ gen.prev.funded) => orders = << >>

\* C2 witness: the second call after a first call that settled orders.
C2_Witness ==
    /\ SecondOfTwoPasses /\ gen.prev.accepted /\ gen.prev.funded
    /\ gen.prev.settled > 0
    /\ orders = << >>

\* The reference scenario of cash priority: cash 100, nothing held, A then B
\* each needing a $70 buy (70 is a whole number of shares of each).
C3_Scenario ==
    /\ gen.called
    /\ gen.cash = 100
    /\ gen.total_value = 100
    /\ gen.target_weights = <<TW("A", 7, 10), TW("B", 7, 10)>>
    /\ \A s \in {"A", "B"} : Get(gen.holdings, s, 0) = 0
    /\ \A i \in {1, 2} : EntryBuyWarranted(gen, i) /\ EntryCost(gen, i) = 70

\* C3 as stated: whenever a BUY for a later symbol is emitted, every earlier
\* symbol with a warranted BUY had its BUY emitted.
C3_Original ==
    gen.called =>
      \A i, j \in DOMAIN gen.target_weights :
        (i < j /\ HasOrder(gen.orders, gen.target_weights[j].symbol, "BUY")
               /\ EntryBuyWarranted(gen, i))
          => HasOrder(gen.orders, gen.target_weights[i].symbol, "BUY")

\* C3 amended: whenever a BUY for a later symbol is emitted, every earlier symbol
\* with a warranted BUY costing no more than the later one had its BUY emitted;
\* and with cash 100 and A then B each needing a $70 buy the result is exactly
\* the BUY for A.
C3_CashPriority ==
    gen.called =>
      /\ \A i, j \in DOMAIN gen.target_weights :
           (i < j /\ HasOrder(gen.orders, gen.target_weights[j].symbol, "BUY")
                  /\ EntryBuyWarranted(gen, i)
                  /\ EntryCost(gen, i) <= EntryCost(gen, j))
             => HasOrder(gen.orders, gen.target_weights[i].symbol, "BUY")
      /\ C3_Scenario =>
           gen.orders = << Order("A", EntryShares(gen, 1), "BUY") >>

\* C3 witness: the scenario, where B is warranted and starved.
C3_Witness ==
    /\ C3_Scenario
    /\ Len(gen.orders) = 1
    /\ ~HasAnyOrder(gen.orders, "B")

\* C4: a target symbol whose |total_value*target_weight - current_value| is
\* strictly below min_order_value gets no order.
C4_DeadZone ==
    gen.called =>
      \A i \in DOMAIN gen.target_weights :
        EntryInDeadZone(gen, i) => ~HasAnyOrder(gen.orders, gen.target_weights[i].symbol)

\* C4 witness: a symbol inside the dead-zone whose deviation is worth at least
\* one share, and another symbol of the same call that is ordered.
C4_Witness ==
    /\ gen.called
    /\ gen.orders # << >>
    /\ \E i \in DOMAIN gen.target_weights :
         /\ EntryInDeadZone(gen, i)
         /\ EntryPriced(gen, i)
         /\ EntryShares(gen, i) >= 1

\* C5: every order generate_orders returns has an integer quantity >= 1 and side
\* BUY or SELL, so the 'quantity > 0' guard of rebalance lets every one through.
C5_PositiveQuantities ==
    gen.called =>
      \A k \in DOMAIN gen.orders :
        /\ gen.orders[k].quantity \in Nat \ {0}
        /\ gen.orders[k].action \in {"BUY", "SELL"}
        /\ RebalanceGuard(gen.orders[k])

\* C5 witness: a call that returned a BUY and a SELL.
C5_Witness ==
    /\ gen.called
    /\ \E k \in DOMAIN gen.orders : gen.orders[k].action = "BUY"
    /\ \E k \in DOMAIN gen.orders : gen.orders[k].action = "SELL"

\* C6: every SELL generate_orders produces is for at most the shares held, and
\* holdings[s] >= 0 in every reachable state.
C6_NoOverSelling ==
    /\ \A s \in DOMAIN holdings : holdings[s] >= 0
    /\ gen.called =>
         \A k \in DOMAIN orders :
           orders[k].action = "SELL" =>
             orders[k].quantity <= Get(gen.holdings, orders[k].symbol, 0)

\* C6 witness: a SELL of everything held has been settled.
C6_Witness ==
    /\ pc = "executing"
    /\ \E k \in DOMAIN successful_orders :
         /\ successful_orders[k].action = "SELL"
         /\ successful_orders[k].quantity = gen.holdings[successful_orders[k].symbol]
         /\ holdings[successful_orders[k].symbol] = 0

\* C7: cash is never negative, between two settlements of a pass included.
C7_CashNonNegative == cash >= 0

\* C7 witness: in the middle of a pass a BUY has been settled that took all the
\* cash, with another order still to be submitted.
C7_Witness ==
    /\ pc = "executing"
    /\ idx <= Len(orders)
    /\ cash = 0
    /\ \E k \in DOMAIN successful_orders : successful_orders[k].action = "BUY"

\* The reference scenario: cash 10000, nothing held, AAPL then MSFT at 0.5 each,
\* AAPL at 150 and MSFT at 100, min_order_value 10.
C8_Scenario ==
    /\ gen.called
    /\ gen.cash = 10000
    /\ gen.holdings = << >>
    /\ gen.target_weights = <<TW("AAPL", 1, 2), TW("MSFT", 1, 2)>>
    /\ DOMAIN gen.prices = {"AAPL", "MSFT"}
    /\ gen.prices["AAPL"] = 150
    /\ gen.prices["MSFT"] = 100
    /\ gen.min_order_value = 10

\* C8: in the reference scenario generate_orders returns exactly
\* [BUY AAPL 33, BUY MSFT 50], which the cash pays for.
C8_ReferenceScenario ==
    C8_Scenario =>
      /\ gen.orders = << Order("AAPL", 33, "BUY"), Order("MSFT", 50, "BUY") >>
      /\ 33 * 150 + 50 * 100 <= gen.cash

\* C8 witness: the reference scenario has been run.
C8_Witness == C8_Scenario /\ Len(gen.orders) = 2

\* C9: an order the broker rejects changes neither cash nor holdings, is not
\* counted as successful and is not submitted again, and the pass goes on: the
\* orders submitted so far are always exactly the first idx-1 of the list, and
\* the loop ends only when every order has been submitted.
C9_RejectionIsolated ==
    /\ [](pc = "executing" =>
            /\ submitted = SubSeq(orders, 1, idx - 1)
            /\ Len(responses) = Len(submitted)
            /\ successful_orders = AcceptedOf(submitted, responses))
    /\ [][ BrokerAnswered(FALSE) =>
             /\ cash' = cash
             /\ holdings' = holdings
             /\ successful_orders' = successful_orders
             /\ pc' = "executing"
             /\ idx' = idx + 1 ]_vars
    /\ [][ (pc = "executing" /\ pc' # "executing") => submitted = orders ]_vars

\* C9 witness: the broker rejected the first order and accepted the second.
C9_Witness ==
    /\ pc = "executing"
    /\ Len(responses) = 2
    /\ ~responses[1]
    /\ responses[2]
    /\ Len(successful_orders) = 1

\* The step is a rebalance call that found no cached composition and whose
\* Composition Provider fetch failed.
FailedFetchStep ==
    /\ pc = "idle"
    /\ ~latest_composition.set
    /\ lastFetch' = "rebalance_failed"

\* C10: a rebalance call with no cached composition whose fetch fails refreshes
\* no price, generates no order, submits nothing, leaves cash, holdings and
\* prices unchanged, and returns normally.
C10_FetchFailureAborts ==
    /\ [](pc # "raised")
    /\ [][ FailedFetchStep =>
             /\ UNCHANGED <<cash, holdings, prices, latest_composition>>
             /\ ~gen'.called
             /\ orders' = << >>
             /\ submitted' = << >>
             /\ pc' = "idle" ]_vars

\* C10 witness: a pass aborted by a failed fetch, with cash it could have spent.
C10_Witness ==
    /\ lastFetch = "rebalance_failed"
    /\ pc = "idle"
    /\ cash > 0


\* ---------------------------------------------------------------------- C11
\* C11: after update_prices(symbols) with a non-empty list, every listed symbol
\* the Price Feed answered carries the answered price, every listed symbol
\* whose query failed keeps the value it had before (or stays absent), wherever
\* in the list the failures are, and the prices of symbols not listed are as
\* before; the call touches neither cash nor holdings.
RefreshIsolated(r, p) ==
    LET L == SeqToSet(r.symbols)
        old == r.before
    IN /\ DOMAIN p = DOMAIN old \cup (L \cap DOMAIN r.feed)
       /\ \A s \in L \cap DOMAIN r.feed : p[s] = r.feed[s]
       /\ \A s \in L \ DOMAIN r.feed :
             /\ (s \in DOMAIN p) = (s \in DOMAIN old)
             /\ s \in DOMAIN old => p[s] = old[s]
       /\ \A s \in DOMAIN old \ L : p[s] = old[s]
C11_RefreshIsolation ==
    [][ (~refresh.called /\ refresh'.called) =>
            /\ refresh'.symbols # << >>
            /\ refresh'.before = prices
            /\ RefreshIsolated(refresh', prices')
            /\ cash' = cash
            /\ holdings' = holdings ]_vars
\* A failed query ahead of a successful one in the list, and a cached price of
\* a symbol that is not listed.
C11_Witness ==
    /\ refresh.called
    /\ Len(refresh.symbols) >= 2
    /\ refresh.symbols[1] \notin DOMAIN refresh.feed
    /\ refresh.symbols[1] \in DOMAIN refresh.before
    /\ refresh.symbols[2] \in DOMAIN refresh.feed
    /\ prices[refresh.symbols[2]] # Get(refresh.before, refresh.symbols[2], 0)
    /\ \E s \in DOMAIN refresh.before : s \notin SeqToSet(refresh.symbols)

\* ---------------------------------------------------------------------- C12
\* C12 as stated: with min_order_value <= 0, every target symbol with a known
\* positive price and a nonzero deviation gets an order.
C12_Original ==
    (gen.called /\ gen.min_order_value <= 0) =>
      \A i \in DOMAIN gen.target_weights :
        (EntryPriced(gen, i) /\ EntryDiff(gen, i) # 0)
          => HasAnyOrder(gen.orders, gen.target_weights[i].symbol)

\* C12 amended: with min_order_value <= 0 the dead-zone skips nothing, so every
\* target symbol with a known positive price whose deviation pays for at least
\* one whole share is ordered: a SELL always, a BUY whenever its cost fits the
\* cash left by the BUYs emitted ahead of it.
C12_NoDeadZoneOrders ==
    (gen.called /\ gen.min_order_value <= 0) =>
      \A i \in DOMAIN gen.target_weights :
        LET s == gen.target_weights[i].symbol
        IN (EntryPriced(gen, i) /\ EntryShares(gen, i) > 0) =>
             /\ EntryDiff(gen, i) < 0 => HasOrder(gen.orders, s, "SELL")
             /\ (EntryDiff(gen, i) > 0
                   /\ EntryCost(gen, i) <= gen.cash - BuyCostBefore(gen, i))
                  => HasOrder(gen.orders, s, "BUY")

\* C12 witness: a deviation below the default threshold of 10 that is ordered
\* because min_order_value <= 0, in a call that leaves another deviation of
\* less than one share without an order.
C12_Witness ==
    /\ gen.called
    /\ gen.min_order_value <= 0
    /\ \E i, j \in DOMAIN gen.target_weights :
         /\ EntryPriced(gen, i)
         /\ EntryShares(gen, i) > 0
         /\ Abs(EntryDiff(gen, i))
              < DefaultMinOrderValue * gen.target_weights[i].weight.den
         /\ HasAnyOrder(gen.orders, gen.target_weights[i].symbol)
         /\ EntryPriced(gen, j)
         /\ EntryDiff(gen, j) # 0
         /\ EntryShares(gen, j) = 0
         /\ ~HasAnyOrder(gen.orders, gen.target_weights[j].symbol)

\* ---------------------------------------------------------------------- C13
\* C13: a symbol that is in holdings but not in target_weights is never traded:
\* no order of the pass names it, and all through the pass, whatever the broker
\* answers, its holdings quantity is the one it had when the pass began.
C13_UntargetedUntouched ==
    pc = "executing" =>
      \A s \in DOMAIN gen.holdings \ SeqToSet(TargetSymbols(gen.target_weights)) :
        /\ ~HasAnyOrder(orders, s)
        /\ s \in DOMAIN holdings
        /\ holdings[s] = gen.holdings[s]

\* C13 witness: a finished pass that traded while a position outside
\* target_weights was held.
C13_Witness ==
    /\ pc = "executing"
    /\ idx > Len(orders)
    /\ successful_orders # << >>
    /\ \E s \in DOMAIN gen.holdings \ SeqToSet(TargetSymbols(gen.target_weights)) :
         gen.holdings[s] > 0

\* ---------------------------------------------------------------------- C14
\* C14: when generate_orders returns an empty list (for an empty target_weights
\* too) the pass submits nothing to the broker and leaves cash and holdings as
\* they were, from the call of rebalance to its return:
\* the step that generates the empty list changes neither, and the pass then
\* only returns, with nothing submitted and both still unchanged.  Nothing here
\* depends on what the passes before it did.
C14_NothingToTradeNoOp ==
    [][ /\ (pc = "idle" /\ pc' = "executing" /\ orders' = << >>) =>
             /\ cash' = cash
             /\ holdings' = holdings
             /\ submitted' = << >>
        /\ (pc = "executing" /\ gen.orders = << >>) =>
             /\ orders = << >>
             /\ submitted = << >>
             /\ pc' = "idle"
             /\ cash' = gen.cash
             /\ holdings' = gen.holdings ]_vars

\* C14 witness: a pass with nothing to trade on a portfolio that holds shares,
\* run straight after another pass that submitted nothing.
C14_Witness ==
    /\ pc = "executing"
    /\ gen.orders = << >>
    /\ gen.target_weights # << >>
    /\ \E s \in DOMAIN gen.holdings : gen.holdings[s] > 0
    /\ gen.prev.valid
    /\ gen.prev.accepted
    /\ gen.prev.settled = 0

\* ---------------------------------------------------------------------- C15
\* C15: all-or-nothing buys against a running cash tracker.  A warranted BUY
\* is emitted exactly when quantity*price <= the cash at the start of the pass
\* minus the cost of the BUYs emitted ahead of it; an emitted BUY has the full
\* warranted quantity (never a smaller one), a BUY that does not fit leaves no
\* order at all; SELLs of the pass add nothing to the tracker (it is the start
\* cash minus BUY costs only); and the BUYs of a pass cost at most the start
\* cash in total.
C15_AllOrNothingBuys ==
    gen.called =>
      /\ \A i \in DOMAIN gen.target_weights :
           LET s == gen.target_weights[i].symbol
               fits == EntryCost(gen, i) <= gen.cash - BuyCostBefore(gen, i)
           IN EntryBuyWarranted(gen, i) =>
                /\ HasOrder(gen.orders, s, "BUY") <=> fits
                /\ fits => \E k \in DOMAIN gen.orders :
                             gen.orders[k] = Order(s, EntryShares(gen, i), "BUY")
                /\ ~fits => ~HasAnyOrder(gen.orders, s)
      /\ BuyCostOf(gen.orders, gen.prices, DOMAIN gen.prices) <= gen.cash

\* C15 witness: a pass that emits a SELL and then drops a warranted BUY which
\* the start cash does not pay for, though the start cash and the SELL's
\* proceeds together would.
C15_Witness ==
    /\ gen.called
    /\ \E i, j \in DOMAIN gen.target_weights :
         /\ i < j
         /\ HasOrder(gen.orders, gen.target_weights[i].symbol, "SELL")
         /\ EntryBuyWarranted(gen, j)
         /\ EntryCost(gen, j) > gen.cash
         /\ EntryCost(gen, j) <= gen.cash + EntryCost(gen, i)
         /\ ~HasAnyOrder(gen.orders, gen.target_weights[j].symbol)

\* ---------------------------------------------------------------------- C16
\* C16: generate_orders is read-only with respect to cash and holdings: across
\* the call portfolio.cash and portfolio.holdings are the same, although the
\* call's own available_cash went down by the cost of the BUYs it emitted; of
\* the portfolio only prices may change, and only for the symbols the call's
\* price refresh goes through (the target symbols; the held symbols when
\* target_weights is empty).
C16_GenerateReadOnly ==
    [][ (~gen.called /\ gen'.called) =>
          /\ cash' = cash
          /\ holdings' = holdings
          /\ gen'.cash = cash
          /\ gen'.holdings = holdings
          /\ \A s \in DOMAIN prices \
                     SeqToSet(RefreshList(TargetSymbols(gen'.target_weights), holdings)) :
               s \in DOMAIN prices' /\ prices'[s] = prices[s] ]_vars

\* C16 witness: after a call that emitted BUYs, so that its available_cash
\* ended below the cash it began with, the portfolio still has all its cash
\* and the shares it had.
C16_Witness ==
    /\ gen.called
    /\ BuyCostOf(gen.orders, gen.prices, DOMAIN gen.prices) > 0
    /\ cash = gen.cash
    /\ holdings = gen.holdings
    /\ \E s \in DOMAIN holdings : holdings[s] > 0

\* ---------------------------------------------------------------------- C17
\* the place of symbol s in the iteration order of target_weights tw
TargetPosition(tw, s) == CHOOSE i \in DOMAIN tw : tw[i].symbol = s
\* what the accepted orders of os add to the quantity held of s
RECURSIVE SharesMoved(_, _)
SharesMoved(os, s) ==
    IF os = << >> THEN 0
    ELSE (IF Head(os).symbol # s THEN 0
          ELSE IF Head(os).action = "BUY" THEN Head(os).quantity
          ELSE 0 - Head(os).quantity)
         + SharesMoved(Tail(os), s)
\* what the accepted orders of os add to cash at prices p
RECURSIVE CashMoved(_, _)
CashMoved(os, p) ==
    IF os = << >> THEN 0
    ELSE (IF Head(os).action = "BUY" THEN 0 - Head(os).quantity * p[Head(os).symbol]
          ELSE Head(os).quantity * p[Head(os).symbol])
         + CashMoved(Tail(os), p)

\* C17: ordering of a pass.  The orders of generate_orders name target symbols
\* only, each at most once, in the iteration order of target_weights; rebalance
\* has at every moment submitted exactly the first idx-1 of them, in that
\* order, and before the next one is submitted cash and holdings already carry
\* the settlement of every accepted one of these and of none that was rejected.
C17_PassOrdering ==
    pc = "executing" =>
      LET tw == gen.target_weights
          done == AcceptedOf(submitted, responses)
      IN /\ orders = gen.orders
         /\ \A k \in DOMAIN orders : orders[k].symbol \in SeqToSet(TargetSymbols(tw))
         /\ \A k, l \in DOMAIN orders :
              k < l => TargetPosition(tw, orders[k].symbol)
                         < TargetPosition(tw, orders[l].symbol)
         /\ idx \in 1..(Len(orders) + 1)
         /\ submitted = SubSeq(orders, 1, idx - 1)
         /\ Len(responses) = idx - 1
         /\ successful_orders = done
         /\ cash = gen.cash + CashMoved(done, prices)
         /\ \A s \in DOMAIN holdings :
              holdings[s] = Get(gen.holdings, s, 0) + SharesMoved(done, s)

\* C17 witness: target_weights iterates B before A, both are ordered, the order
\* for B has been submitted, accepted and settled, and the one for A is next.
C17_Witness ==
    /\ pc = "executing"
    /\ Len(gen.target_weights) = 2
    /\ gen.target_weights[1].symbol = "B"
    /\ Len(orders) = 2
    /\ orders[1].symbol = "B"
    /\ orders[2].symbol = "A"
    /\ idx = 2
    /\ responses = <<TRUE>>
    /\ cash # gen.cash

\* ---------------------------------------------------------------------- C18
\* C18: whole-share sizing truncates toward zero on both sides.  Every order
\* is for the largest whole quantity q with q*price <= |target_value -
\* current_value|, a BUY when the position is below target and a SELL when it
\* is above; so a BUY never takes the position above its target value and a
\* SELL never takes it below.  A deviation smaller than one share price gets no
\* order even when it is at least min_order_value, and a symbol whose price is
\* unknown or <= 0 gets no order.
C18_TruncatesTowardZero ==
    gen.called =>
      \A i \in DOMAIN gen.target_weights :
        LET e == gen.target_weights[i]
            s == e.symbol
            den == e.weight.den
            diff == EntryDiff(gen, i)
        IN /\ ~EntryPriced(gen, i) => ~HasAnyOrder(gen.orders, s)
           /\ (EntryPriced(gen, i) /\ Abs(diff) < gen.prices[s] * den)
                => ~HasAnyOrder(gen.orders, s)
           /\ \A k \in DOMAIN gen.orders :
                gen.orders[k].symbol = s =>
                  LET q == gen.orders[k].quantity
                      p == gen.prices[s]
                      after == IF gen.orders[k].action = "BUY"
                               THEN EntryCurrent(gen, i) + q * p
                               ELSE EntryCurrent(gen, i) - q * p
                  IN /\ q >= 1
                     /\ q * p * den <= Abs(diff)
                     /\ Abs(diff) < (q + 1) * p * den
                     /\ gen.orders[k].action = (IF diff > 0 THEN "BUY" ELSE "SELL")
                     /\ diff > 0 => after * den <= gen.total_value * e.weight.num
                     /\ diff < 0 => after * den >= gen.total_value * e.weight.num

\* C18 witness: a SELL that leaves a remainder of less than one share above the
\* target, in a call where another priced symbol deviates by at least
\* min_order_value but by less than one share price and gets no order.
C18_Witness ==
    /\ gen.called
    /\ \E i, j \in DOMAIN gen.target_weights :
         /\ HasOrder(gen.orders, gen.target_weights[i].symbol, "SELL")
         /\ Abs(EntryDiff(gen, i)) >
              EntryCost(gen, i) * gen.target_weights[i].weight.den
         /\ EntryPriced(gen, j)
         /\ EntryDiff(gen, j) # 0
         /\ ~EntryInDeadZone(gen, j)
         /\ gen.min_order_value > 0
         /\ EntryShares(gen, j) = 0
         /\ ~HasAnyOrder(gen.orders, gen.target_weights[j].symbol)

\* ---------------------------------------------------------------------- C19
\* C19: at most one rebalance pass is in flight at any time.  Under run_weekly
\* a pass runs only inside run_pending: while it runs the loop is inside the
\* job, neither polling nor sleeping, so the trigger cannot call rebalance
\* again before the pass has returned, and never do two calls of rebalance
\* stand unreturned together.
C19_OnePassInFlight ==
    /\ inflight \in {0, 1}
    /\ (inflight = 1) <=> (pc = "executing")
    /\ pc = "executing" => loop = "job"
    /\ loop \in {"run_pending", "sleep"} => (pc = "idle" /\ inflight = 0)

\* C19 witness: the second pass the trigger started, straight after the first,
\* is between its first and its second order.
C19_Witness ==
    /\ loop = "job"
    /\ pc = "executing"
    /\ inflight = 1
    /\ gen.prev.valid
    /\ Len(orders) = 2
    /\ idx = 2

\* ---------------------------------------------------------------------- C20
\* The step is a call of rebalance: one that went on to the order loop, or one
\* that queried the Composition Provider.
RebalanceStep ==
    /\ pc = "idle"
    /\ pc' = "executing" \/ lastFetch' \in {"rebalance_ok", "rebalance_failed"}

\* C20: the composition is fetched only when needed.  A call of rebalance
\* queries the Composition Provider exactly when no composition is cached, and
\* then once.  If that fetch fails, still nothing is cached and the call ends
\* there, so the next call queries again; if it succeeds, the fetched
\* composition is cached and used.  Once a composition is cached it stays
\* cached, and every call of rebalance uses the cached target weights without
\* querying and without changing them.
C20_FetchOnlyWhenNeeded ==
    [][ /\ latest_composition.set => latest_composition'.set
        /\ RebalanceStep =>
             /\ (lastFetch' # "none") <=> ~latest_composition.set
             /\ lastFetch' = "rebalance_failed" =>
                  /\ ~latest_composition'.set
                  /\ pc' = "idle"
                  /\ ~gen'.called
             /\ lastFetch' = "rebalance_ok" =>
                  /\ latest_composition'.set
                  /\ pc' = "executing"
                  /\ gen'.target_weights = latest_composition'.weights
             /\ latest_composition.set =>
                  /\ latest_composition' = latest_composition
                  /\ pc' = "executing"
                  /\ gen'.target_weights = latest_composition.weights ]_vars

\* C20 witness: a pass that ran on the cached composition without a query,
\* straight after an earlier pass.
C20_Witness ==
    /\ pc = "executing"
    /\ lastFetch = "none"
    /\ latest_composition.set
    /\ gen.target_weights = latest_composition.weights
    /\ gen.target_weights # << >>
    /\ gen.prev.valid

====
